---- MODULE Spec2Model ----
(***************************************************************************)
(* Crossword constraint-satisfaction solver (generate.py):                 *)
(* CrosswordCreator.solve = enforce_node_consistency; ac3; backtrack.      *)
(* Words are sequences of letters; Python's 0-based index k of a word w is *)
(* w[k + 1] here.                                                          *)
(***************************************************************************)
EXTENDS Integers, Sequences, FiniteSets, TLC

VARIABLES
    crossword,   \* self.crossword: [variables, words]
    domains,     \* self.domains: slot -> set of words
    pc,          \* position of the running call
    arcs,        \* ac3: the worklist (a deque; pop() takes the last element)
    seed,        \* ac3: the arcs argument of the call (NoSeed = None)
    ac3ret,      \* ac3: return value of the last call
    assignment,  \* backtrack: the assignment dict
    stack,       \* backtrack: call frames [var, values still to try]
    result,      \* solve: return value
    before,      \* domains when the last operation was called
    lastOp,      \* the last operation called and what it returned
    calls,       \* number of method calls made on the object so far
    steps        \* number of steps solve() has taken

vars == <<crossword, domains, pc, arcs, seed, ac3ret, assignment, stack, result,
          before, lastOp, calls, steps>>

-----------------------------------------------------------------------------
(* Bounds *)

\* largest vocabulary (number of words in the word list)
MaxVocab == 4

\* longest caller-supplied arc list given to ac3
MaxSeedLen == 1

\* number of method calls a caller makes on one CrosswordCreator
MaxCalls == 3

-----------------------------------------------------------------------------
(* Puzzle model (crossword.py: Variable, Crossword) *)

ACROSS == "across"
DOWN == "down"

Variable(i, j, direction, length) ==
    [i |-> i, j |-> j, direction |-> direction, length |-> length]

\* the cells a slot covers, in order: cell k of the slot is Cells(v)[k + 1]
Cells(v) ==
    [k \in 1..v.length |->
        <<v.i + (IF v.direction = DOWN THEN k - 1 ELSE 0),
          v.j + (IF v.direction = ACROSS THEN k - 1 ELSE 0)>>]

None == <<>>

\* overlaps[x, y]: None, or <<i, j>>: character i of x is character j of y
Overlaps(x, y) ==
    LET shared == {p \in (DOMAIN Cells(x)) \X (DOMAIN Cells(y)) :
                      Cells(x)[p[1]] = Cells(y)[p[2]]}
    IN IF Cardinality(shared) = 1
       THEN LET p == CHOOSE q \in shared : TRUE IN <<p[1] - 1, p[2] - 1>>
       ELSE None

Neighbors(cw, var) ==
    {v \in cw.variables : v /= var /\ Overlaps(v, var) /= None}

\* Grid  ###     slots: S1 across row 0, S2 down column 1, S3 across row 2
\*       .#.
\*       .##
S1 == Variable(0, 0, ACROSS, 3)
S2 == Variable(0, 1, DOWN, 3)
S3 == Variable(2, 1, ACROSS, 2)

\* Grid  ##      slots: R0, R1 across, C0, C1 down (a cycle of overlaps)
\*       ##
R0 == Variable(0, 0, ACROSS, 2)
R1 == Variable(1, 0, ACROSS, 2)
C0 == Variable(0, 0, DOWN, 2)
C1 == Variable(0, 1, DOWN, 2)

Square == {R0, R1, C0, C1}

Puzzles == { {}, {S1}, {S1, S2}, {S1, S3}, {S1, S2, S3}, Square }

CAT == <<"C", "A", "T">>
CAR == <<"C", "A", "R">>
ARC == <<"A", "R", "C">>
TEN == <<"T", "E", "N">>
DOG == <<"D", "O", "G">>
EEL == <<"E", "E", "L">>
AT == <<"A", "T">>
AN == <<"A", "N">>
TO == <<"T", "O">>
NO == <<"N", "O">>
CO == <<"C", "O">>

TwoLetterWords == {AT, AN, TO, NO, CO}

AllWords == {CAT, CAR, ARC, TEN, DOG, EEL} \cup TwoLetterWords

Vocabularies == {W \in SUBSET AllWords : Cardinality(W) <= MaxVocab}

\* the puzzles the solver is run on: every grid with every vocabulary; the
\* square grid, whose 8 arcs have the most worklist orders, with two-letter
\* vocabularies only (node consistency drops longer words in its first step)
Crosswords ==
    {cw \in {[variables |-> P, words |-> W] : P \in Puzzles, W \in Vocabularies} :
        cw.variables = Square => cw.words \subseteq TwoLetterWords}

-----------------------------------------------------------------------------
(* Helpers *)

\* every order in which a set can be iterated
Perms(S) ==
    {f \in [1..Cardinality(S) -> S] :
        \A a, b \in 1..Cardinality(S) : a /= b => f[a] /= f[b]}

EmptyAssignment == [v \in {} |-> <<>>]

Put(asg, var, value) ==
    [v \in (DOMAIN asg) \cup {var} |-> IF v = var THEN value ELSE asg[v]]

Del(asg, var) == [v \in (DOMAIN asg) \ {var} |-> asg[v]]

\* the arcs argument of ac3: None (no seed given) or a list of arcs
NoSeed == [given |-> FALSE, arcs |-> <<>>]
Seed(q) == [given |-> TRUE, arcs |-> q]

\* the record of a call: the method, what it returned, the method called before it
Op(name, ret, last) == [name |-> name, ret |-> ret, prev |-> last.name]

NoOp == [name |-> "none", ret |-> "none", prev |-> "none"]

-----------------------------------------------------------------------------
(* CrosswordCreator: the pure parts *)

\* __init__: every slot starts with a copy of the whole vocabulary
InitDomains(cw) == [var \in cw.variables |-> cw.words]

\* mutant: the length test written <= instead of ==
EnforceNodeConsistencyAtMost(doms) ==
    [variable \in DOMAIN doms |->
        {word \in doms[variable] : Len(word) <= variable.length}]

\* mutant: valid_values computed but never stored
EnforceNodeConsistencyDropped(doms) == doms

\* enforce_node_consistency: keep the words of the slot's length
EnforceNodeConsistency(doms) ==
    [variable \in DOMAIN doms |->
        {word \in doms[variable] : Len(word) = variable.length}]

\* mutant: the overlap indices used the wrong way round (word_x[j], word_y[i])
HasOverlapSwapped(doms, y, word_x, i, j) ==
    /\ Len(word_x) > j
    /\ \E word_y \in doms[y] : Len(word_y) > i /\ word_x[j + 1] = word_y[i + 1]

\* mutant: all() in place of any(): every word of y's domain must match
HasOverlapAll(doms, y, word_x, i, j) ==
    /\ Len(word_x) > i
    /\ \A word_y \in doms[y] : Len(word_y) > j /\ word_x[i + 1] = word_y[j + 1]

\* word_x[i] == word_y[j] for some word_y of y's domain (indices in range)
HasOverlap(doms, y, word_x, i, j) ==
    /\ Len(word_x) > i
    /\ \E word_y \in doms[y] : Len(word_y) > j /\ word_x[i + 1] = word_y[j + 1]

\* mutant: x and y confused when the domain is rebuilt: x gets y's matching words
ReviseOutcomesFromY(doms, x, y) ==
    LET overlap == Overlaps(x, y) IN
    IF overlap = None
    THEN {[dom |-> doms[x], revised |-> FALSE, error |-> FALSE]}
    ELSE LET kept == {word_y \in doms[y] :
                         \E word_x \in doms[x] :
                            /\ Len(word_x) > overlap[1] /\ Len(word_y) > overlap[2]
                            /\ word_x[overlap[1] + 1] = word_y[overlap[2] + 1]}
         IN {[dom |-> kept, revised |-> kept /= doms[x], error |-> FALSE]}

\* mutant: "revised = True" is never executed, the flag stays False
ReviseOutcomesFlagLost(doms, x, y) ==
    LET overlap == Overlaps(x, y) IN
    IF overlap = None
    THEN {[dom |-> doms[x], revised |-> FALSE, error |-> FALSE]}
    ELSE LET kept == {word_x \in doms[x] :
                         HasOverlap(doms, y, word_x, overlap[1], overlap[2])}
         IN {[dom |-> kept, revised |-> FALSE, error |-> FALSE]}

\* mutant: "revised = True" stands outside the if, revise always returns True
ReviseOutcomesAlwaysRevised(doms, x, y) ==
    LET overlap == Overlaps(x, y) IN
    IF overlap = None
    THEN {[dom |-> doms[x], revised |-> FALSE, error |-> FALSE]}
    ELSE LET kept == {word_x \in doms[x] :
                         HasOverlap(doms, y, word_x, overlap[1], overlap[2])}
         IN {[dom |-> kept, revised |-> TRUE, error |-> FALSE]}

\* revise(x, y): the outcomes the call can have. Normally one: x's new domain
\* and the returned flag. A word too short for the overlap index makes the
\* comparison raise IndexError; which words were removed before that depends
\* on the iteration order of the sets.
ReviseOutcomes(doms, x, y) ==
    LET overlap == Overlaps(x, y) IN
    IF overlap = None
    THEN {[dom |-> doms[x], revised |-> FALSE, error |-> FALSE]}
    ELSE
      LET i == overlap[1]
          j == overlap[2]
          short_y == {word_y \in doms[y] : Len(word_y) <= j}
          MayFinish(word_x) ==
              \/ doms[y] = {}
              \/ Len(word_x) > i /\ (short_y = {} \/ HasOverlap(doms, y, word_x, i, j))
          MayRaise(word_x) ==
              doms[y] /= {} /\ (Len(word_x) <= i \/ short_y /= {})
          kept == {word_x \in doms[x] : HasOverlap(doms, y, word_x, i, j)}
          removable == {word_x \in doms[x] \ kept : MayFinish(word_x)}
          normal == IF \A word_x \in doms[x] : MayFinish(word_x)
                    THEN {[dom |-> kept, revised |-> kept /= doms[x], error |-> FALSE]}
                    ELSE {}
          raised == IF \E word_x \in doms[x] : MayRaise(word_x)
                    THEN {[dom |-> doms[x] \ R, revised |-> R /= {}, error |-> TRUE] :
                             R \in SUBSET removable}
                    ELSE {}
      IN normal \cup raised

\* the arcs (var, neighbor) of one slot, in every iteration order of neighbors
ArcsOf(cw, var) ==
    {[k \in DOMAIN p |-> <<var, p[k]>>] : p \in Perms(Neighbors(cw, var))}

RECURSIVE ArcSeqs(_, _)
ArcSeqs(cw, varOrder) ==
    IF varOrder = <<>> THEN {<<>>}
    ELSE {h \o t : h \in ArcsOf(cw, Head(varOrder)),
                   t \in ArcSeqs(cw, Tail(varOrder))}

\* every deque the generator over variables x neighbors can produce
AllArcs(cw) == UNION {ArcSeqs(cw, varOrder) : varOrder \in Perms(cw.variables)}

\* ac3, lines 129-136: the initial worklist for the given arcs argument
\* ("if not arcs": None and the empty list both take the first branch; deque
\* is taken to come with "from crossword import *")
InitialArcs(cw, arg) ==
    IF ~arg.given \/ arg.arcs = <<>> THEN AllArcs(cw) ELSE {arg.arcs}

\* mutant: nothing is put back on the worklist after a revision
RequeuedNothing(cw, x, y) == {<<>>}

\* ac3, lines 147-148: the arcs (z, x) appended after x shrank, in every order
Requeued(cw, x, y) ==
    {[k \in DOMAIN p |-> <<p[k], x>>] : p \in Perms(Neighbors(cw, x) \ {y})}

\* assignment_complete
AssignmentComplete(cw, asg) == \A var \in cw.variables : var \in DOMAIN asg

\* mutant: the distinctness test (lines 166-167) left out
EntryOutcomesNoDistinct(cw, asg, var) ==
    LET word == asg[var]
        assigned == {n \in Neighbors(cw, var) : n \in DOMAIN asg}
        raising == {n \in assigned : Len(asg[n]) <= Overlaps(var, n)[2]}
        differing == {n \in assigned \ raising :
                         word[Overlaps(var, n)[1] + 1] /= asg[n][Overlaps(var, n)[2] + 1]}
    IN IF Len(word) /= var.length THEN {"False"}
       ELSE IF raising \cup differing = {} THEN {"ok"}
       ELSE {"False" : n \in differing} \cup {"IndexError" : n \in raising}

\* consistent, lines 160-174, for one entry (var, word) of the assignment:
\* "ok" (go on to the next entry), "False", or "IndexError" when an assigned
\* neighbor's word is too short for the overlap index. The neighbors are
\* iterated in set order, so the first offending neighbor decides.
EntryOutcomes(cw, asg, var) ==
    LET word == asg[var]
        assigned == {n \in Neighbors(cw, var) : n \in DOMAIN asg}
        raising == {n \in assigned : Len(asg[n]) <= Overlaps(var, n)[2]}
        differing == {n \in assigned \ raising :
                         word[Overlaps(var, n)[1] + 1] /= asg[n][Overlaps(var, n)[2] + 1]}
    IN IF Len(word) /= var.length THEN {"False"}
       ELSE IF Cardinality({v \in DOMAIN asg : asg[v] = word}) > 1 THEN {"False"}
       ELSE IF raising \cup differing = {} THEN {"ok"}
       ELSE {"False" : n \in differing} \cup {"IndexError" : n \in raising}

\* mutant: "return True" indented into the loop: only the first entry is checked
ConsistentFirstEntry(cw, asg, order) ==
    IF order = <<>> THEN {"True"}
    ELSE LET here == EntryOutcomes(cw, asg, Head(order))
         IN (here \ {"ok"}) \cup (IF "ok" \in here THEN {"True"} ELSE {})

\* consistent(assignment): the possible results, the entries taken in the
\* dict's order (insertion order)
RECURSIVE Consistent(_, _, _)
Consistent(cw, asg, order) ==
    IF order = <<>> THEN {"True"}
    ELSE LET here == EntryOutcomes(cw, asg, Head(order))
         IN (here \ {"ok"}) \cup
            (IF "ok" \in here THEN Consistent(cw, asg, Tail(order)) ELSE {})

\* mutant: max() instead of min(): the largest domain first
KeyLessReversed(cw, doms, a, b) ==
    \/ Cardinality(doms[a]) > Cardinality(doms[b])
    \/ /\ Cardinality(doms[a]) = Cardinality(doms[b])
       /\ Cardinality(Neighbors(cw, a)) > Cardinality(Neighbors(cw, b))

\* mutant: the tie on domain size is not broken by the number of neighbors
KeyLessNoDegree(cw, doms, a, b) == Cardinality(doms[a]) < Cardinality(doms[b])

\* select_unassigned_variable: key (domain size, -degree), compared as tuples
KeyLess(cw, doms, a, b) ==
    \/ Cardinality(doms[a]) < Cardinality(doms[b])
    \/ /\ Cardinality(doms[a]) = Cardinality(doms[b])
       /\ Cardinality(Neighbors(cw, a)) > Cardinality(Neighbors(cw, b))

\* min() returns the first minimal element in the iteration order of the set
\* of variables: any of the minimal ones
SelectUnassignedVariable(cw, doms, asg) ==
    LET unassigned == {var \in cw.variables : var \notin DOMAIN asg}
    IN {var \in unassigned : \A other \in unassigned : ~KeyLess(cw, doms, other, var)}

\* mutant: "if neighbor not in assignment" is missing, every neighbor counts
HeuristicCountsAssigned(cw, doms, var, asg, word) ==
    Cardinality({neighbor \in Neighbors(cw, var) : word \in doms[neighbor]})

\* order_domain_values: heuristics[word]
Heuristic(cw, doms, var, asg, word) ==
    Cardinality({neighbor \in Neighbors(cw, var) :
                    neighbor \notin DOMAIN asg /\ word \in doms[neighbor]})

\* sorted() is stable: ties stay in the iteration order of the domain set
OrderDomainValues(cw, doms, var, asg) ==
    {p \in Perms(doms[var]) :
        \A a, b \in DOMAIN p :
            a < b => Heuristic(cw, doms, var, asg, p[a]) <= Heuristic(cw, doms, var, asg, p[b])}

\* the assignment dict's iteration order during the search: one entry per frame
InsertionOrder(st) == [k \in DOMAIN st |-> st[k].var]

-----------------------------------------------------------------------------
(* solve() as a state machine *)

Init ==
    /\ crossword \in Crosswords
    /\ domains = InitDomains(crossword)
    /\ pc = "solve"
    /\ arcs = <<>>
    /\ seed = NoSeed
    /\ ac3ret = "pending"
    /\ assignment = EmptyAssignment
    /\ stack = <<>>
    /\ result = "pending"
    /\ before = domains
    /\ lastOp = NoOp
    /\ calls = 0
    /\ steps = 0

\* solve, line 92
SolveNodeConsistency ==
    /\ pc = "solve"
    /\ before' = domains
    /\ domains' = EnforceNodeConsistency(domains)
    /\ lastOp' = Op("enforce_node_consistency", "None", lastOp)
    /\ pc' = "call_ac3"
    /\ steps' = steps + 1
    /\ UNCHANGED <<calls, crossword, arcs, seed, ac3ret, assignment, stack, result>>

\* ac3, lines 129-136, called with the arcs argument arg
Ac3Call(arg) ==
    /\ seed' = arg
    /\ arcs' \in InitialArcs(crossword, arg)
    /\ before' = domains
    /\ ac3ret' = "pending"
    /\ lastOp' = Op("ac3", "pending", lastOp)
    /\ pc' = "ac3"
    /\ UNCHANGED <<crossword, domains, stack, result>>

\* solve, line 93
SolveAc3 ==
    /\ pc = "call_ac3"
    /\ Ac3Call(NoSeed)
    /\ steps' = steps + 1
    /\ UNCHANGED <<assignment, calls>>

\* mutant: the test for an emptied domain (lines 147-148) is missing
Ac3StepNoEmptyCheck(ret) ==
    /\ pc = "ac3"
    /\ IF arcs = <<>>
       THEN /\ ac3ret' = "True"
            /\ lastOp' = [lastOp EXCEPT !.ret = "True"]
            /\ pc' = ret
            /\ UNCHANGED <<domains, arcs>>
       ELSE LET x == arcs[Len(arcs)][1]
                y == arcs[Len(arcs)][2]
                rest == SubSeq(arcs, 1, Len(arcs) - 1)
            IN \E out \in ReviseOutcomes(domains, x, y) :
                 /\ domains' = [domains EXCEPT ![x] = out.dom]
                 /\ IF out.error
                    THEN /\ pc' = "error"
                         /\ lastOp' = [lastOp EXCEPT !.ret = "IndexError"]
                         /\ UNCHANGED <<arcs, ac3ret>>
                    ELSE /\ arcs' \in IF out.revised
                                      THEN {rest \o q : q \in Requeued(crossword, x, y)}
                                      ELSE {rest}
                         /\ UNCHANGED <<pc, ac3ret, lastOp>>
    /\ UNCHANGED <<crossword, seed, assignment, stack, result, before, calls>>

\* ac3, lines 139-151: one turn of the while loop, or the return after it;
\* the caller goes on at position ret
Ac3Step(ret) ==
    /\ pc = "ac3"
    /\ IF arcs = <<>>
       THEN /\ ac3ret' = "True"
            /\ lastOp' = [lastOp EXCEPT !.ret = "True"]
            /\ pc' = ret
            /\ UNCHANGED <<domains, arcs>>
       ELSE LET x == arcs[Len(arcs)][1]
                y == arcs[Len(arcs)][2]
                rest == SubSeq(arcs, 1, Len(arcs) - 1)
            IN \E out \in ReviseOutcomes(domains, x, y) :
                 /\ domains' = [domains EXCEPT ![x] = out.dom]
                 /\ IF out.error
                    THEN /\ pc' = "error"
                         /\ lastOp' = [lastOp EXCEPT !.ret = "IndexError"]
                         /\ UNCHANGED <<arcs, ac3ret>>
                    ELSE IF out.revised /\ out.dom = {}
                    THEN /\ ac3ret' = "False"
                         /\ lastOp' = [lastOp EXCEPT !.ret = "False"]
                         /\ pc' = ret
                         /\ arcs' = <<>>
                    ELSE /\ arcs' \in IF out.revised
                                      THEN {rest \o q : q \in Requeued(crossword, x, y)}
                                      ELSE {rest}
                         /\ UNCHANGED <<pc, ac3ret, lastOp>>
    /\ UNCHANGED <<crossword, seed, assignment, stack, result, before, calls>>

\* solve, line 93: the return value of ac3 is dropped, line 94 follows
SolveAc3Step == Ac3Step("backtrack") /\ steps' = steps + 1

\* backtrack, lines 211-215 and 218 (the values are ordered once, at loop entry;
\* a frame also records the assignment the call was entered with)
BacktrackEnter ==
    /\ pc = "backtrack"
    /\ IF AssignmentComplete(crossword, assignment)
       THEN /\ result' = "assignment"
            /\ pc' = "done"
            /\ stack' = <<>>
       ELSE /\ \E var \in SelectUnassignedVariable(crossword, domains, assignment) :
               \E values \in OrderDomainValues(crossword, domains, var, assignment) :
                  stack' = Append(stack, [var |-> var, values |-> values,
                                          entry |-> assignment])
            /\ pc' = "for"
            /\ UNCHANGED result
    /\ steps' = steps + 1
    /\ UNCHANGED <<calls, crossword, domains, arcs, seed, ac3ret, assignment, before, lastOp>>

\* mutant: the loop removes each value it tries from the slot's domain
BacktrackNextConsuming ==
    /\ pc = "for"
    /\ LET frame == stack[Len(stack)] IN
       IF frame.values = <<>>
       THEN /\ stack' = SubSeq(stack, 1, Len(stack) - 1)
            /\ IF Len(stack) = 1
               THEN result' = "None" /\ pc' = "done"
               ELSE pc' = "undo" /\ UNCHANGED result
            /\ UNCHANGED <<assignment, domains>>
       ELSE /\ assignment' = Put(assignment, frame.var, Head(frame.values))
            /\ domains' = [domains EXCEPT ![frame.var] = @ \ {Head(frame.values)}]
            /\ stack' = [stack EXCEPT ![Len(stack)].values = Tail(frame.values)]
            /\ pc' = "check"
            /\ UNCHANGED result
    /\ steps' = steps + 1
    /\ UNCHANGED <<calls, crossword, arcs, seed, ac3ret, before, lastOp>>

\* backtrack, lines 218-219 and 229: the next value is assigned, or the loop
\* is over and the call returns None
BacktrackNext ==
    /\ pc = "for"
    /\ LET frame == stack[Len(stack)] IN
       IF frame.values = <<>>
       THEN /\ stack' = SubSeq(stack, 1, Len(stack) - 1)
            /\ IF Len(stack) = 1
               THEN result' = "None" /\ pc' = "done"
               ELSE pc' = "undo" /\ UNCHANGED result
            /\ UNCHANGED assignment
       ELSE /\ assignment' = Put(assignment, frame.var, Head(frame.values))
            /\ stack' = [stack EXCEPT ![Len(stack)].values = Tail(frame.values)]
            /\ pc' = "check"
            /\ UNCHANGED result
    /\ steps' = steps + 1
    /\ UNCHANGED <<calls, crossword, domains, arcs, seed, ac3ret, before, lastOp>>

\* mutant: "if self.consistent:" (the method, not its result): always true
BacktrackCheckAlways ==
    /\ pc = "check"
    /\ pc' = "backtrack"
    /\ steps' = steps + 1
    /\ UNCHANGED <<crossword, domains, arcs, seed, ac3ret, assignment, stack, result,
                   before, lastOp, calls>>

\* backtrack, lines 221-222
BacktrackCheck ==
    /\ pc = "check"
    /\ \E r \in Consistent(crossword, assignment, InsertionOrder(stack)) :
         /\ lastOp' = Op("consistent", r, lastOp)
         /\ pc' = IF r = "True" THEN "backtrack"
                  ELSE IF r = "False" THEN "undo" ELSE "error"
    /\ steps' = steps + 1
    /\ UNCHANGED <<calls, crossword, domains, arcs, seed, ac3ret, assignment, stack, result, before>>

\* mutant: "del assignment[var]" is missing
BacktrackUndoSkipped ==
    /\ pc = "undo"
    /\ pc' = "for"
    /\ steps' = steps + 1
    /\ UNCHANGED <<calls, crossword, domains, arcs, seed, ac3ret, assignment, stack, result,
                   before, lastOp>>

\* backtrack, line 226
BacktrackUndo ==
    /\ pc = "undo"
    /\ assignment' = Del(assignment, stack[Len(stack)].var)
    /\ pc' = "for"
    /\ steps' = steps + 1
    /\ UNCHANGED <<calls, crossword, domains, arcs, seed, ac3ret, stack, result, before, lastOp>>

Next ==
    \/ SolveNodeConsistency
    \/ SolveAc3
    \/ SolveAc3Step
    \/ BacktrackEnter
    \/ BacktrackNext
    \/ BacktrackCheck
    \/ BacktrackUndo

Spec == Init /\ [][Next]_vars

-----------------------------------------------------------------------------
(* The methods called one at a time on a constructed CrosswordCreator *)

\* arcs a caller can pass to ac3: lists of (slot, neighbor) pairs, or None
ArcSet(cw) == {a \in cw.variables \X cw.variables : a[2] \in Neighbors(cw, a[1])}

SeedArgs(cw) ==
    {NoSeed} \cup {Seed(q) : q \in UNION {[1..n -> ArcSet(cw)] : n \in 0..MaxSeedLen}}

\* assignments a caller can pass to consistent: any words of the vocabulary
Assignments(cw) == UNION {[D -> cw.words] : D \in SUBSET cw.variables}

\* the methods are exercised on the grids of at most four arcs, with the
\* vocabularies drawn from six of the words
ApiWords == {CAT, ARC, TEN, EEL, CO, AT}

ApiCrosswords ==
    {cw \in Crosswords : cw.variables /= Square /\ cw.words \subseteq ApiWords}

ApiInit ==
    /\ crossword \in ApiCrosswords
    /\ domains = InitDomains(crossword)
    /\ pc = "idle"
    /\ arcs = <<>>
    /\ seed = NoSeed
    /\ ac3ret = "pending"
    /\ assignment = EmptyAssignment
    /\ stack = <<>>
    /\ result = "pending"
    /\ before = domains
    /\ lastOp = NoOp
    /\ calls = 0
    /\ steps = 0

ApiEnforceNodeConsistency ==
    /\ pc = "idle"
    /\ calls < MaxCalls
    /\ calls' = calls + 1
    /\ before' = domains
    /\ domains' = EnforceNodeConsistency(domains)
    /\ lastOp' = Op("enforce_node_consistency", "None", lastOp)
    /\ seed' = NoSeed
    /\ assignment' = EmptyAssignment
    /\ UNCHANGED <<steps, crossword, pc, arcs, ac3ret, stack, result>>

ApiRevise ==
    /\ pc = "idle"
    /\ calls < MaxCalls
    /\ calls' = calls + 1
    /\ \E x \in crossword.variables : \E y \in crossword.variables \ {x} :
         \E out \in ReviseOutcomes(domains, x, y) :
            /\ domains' = [domains EXCEPT ![x] = out.dom]
            /\ lastOp' = [name |-> "revise", x |-> x, y |-> y, prev |-> lastOp.name,
                          ret |-> IF out.error THEN "IndexError"
                                  ELSE IF out.revised THEN "True" ELSE "False"]
            /\ pc' = IF out.error THEN "error" ELSE "idle"
    /\ before' = domains
    /\ seed' = NoSeed
    /\ assignment' = EmptyAssignment
    /\ UNCHANGED <<steps, crossword, arcs, ac3ret, stack, result>>

ApiAc3 ==
    /\ pc = "idle"
    /\ calls < MaxCalls
    /\ calls' = calls + 1
    /\ assignment' = EmptyAssignment
    /\ \E arg \in SeedArgs(crossword) : Ac3Call(arg)
    /\ UNCHANGED steps

ApiAc3Step == Ac3Step("idle") /\ UNCHANGED steps

ApiNext ==
    \/ ApiEnforceNodeConsistency
    \/ ApiRevise
    \/ ApiAc3
    \/ ApiAc3Step

SpecApi == ApiInit /\ [][ApiNext]_vars

-----------------------------------------------------------------------------
(* ac3 alone, with the turns of its while loop counted in steps *)

\* the first call of ac3, with any arcs argument, before or after the node
\* filter; the count of loop turns starts at 0
CountedAc3 ==
    /\ pc = "idle"
    /\ lastOp.name /= "ac3"
    /\ calls < MaxCalls
    /\ calls' = calls + 1
    /\ assignment' = EmptyAssignment
    /\ \E arg \in SeedArgs(crossword) : Ac3Call(arg)
    /\ steps' = 0

\* one test of the while condition, with the turn it starts if there is one
CountedAc3Step == Ac3Step("idle") /\ steps' = steps + 1

Ac3Next ==
    \/ ApiEnforceNodeConsistency
    \/ CountedAc3
    \/ CountedAc3Step

SpecAc3 == ApiInit /\ [][Ac3Next]_vars

-----------------------------------------------------------------------------

(* select_unassigned_variable and order_domain_values applied to the domains
   the public calls leave *)

\* both functions read only the keys of the assignment (lines 185 and 197):
\* one assignment for each set of assigned slots
KeyAssignments(cw) ==
    IF cw.words = {} THEN {EmptyAssignment}
    ELSE {[v \in D |-> CHOOSE w \in cw.words : TRUE] : D \in SUBSET cw.variables}

\* the grids of the other calls with vocabularies drawn from four of the
\* words, and the square grid with two words
HeuristicWords == {CAT, ARC, AT, CO}

HeuristicCrosswords ==
    {cw \in ApiCrosswords : cw.words \subseteq HeuristicWords} \cup
        {cw \in Crosswords : cw.variables = Square /\ Cardinality(cw.words) <= 2}

HeuristicInit ==
    /\ crossword \in HeuristicCrosswords
    /\ domains = InitDomains(crossword)
    /\ pc = "idle"
    /\ arcs = <<>>
    /\ seed = NoSeed
    /\ ac3ret = "pending"
    /\ assignment = EmptyAssignment
    /\ stack = <<>>
    /\ result = "pending"
    /\ before = domains
    /\ lastOp = NoOp
    /\ calls = 0
    /\ steps = 0

\* select_unassigned_variable(assignment), for an incomplete assignment
ApiSelect ==
    /\ pc = "idle"
    /\ \E asg \in KeyAssignments(crossword) :
         /\ ~AssignmentComplete(crossword, asg)
         /\ assignment' = asg
         /\ \E var \in SelectUnassignedVariable(crossword, domains, asg) :
               lastOp' = [name |-> "select_unassigned_variable", ret |-> var,
                          prev |-> lastOp.name]
    /\ pc' = "returned"
    /\ UNCHANGED <<crossword, domains, arcs, seed, ac3ret, stack, result, before, calls, steps>>

\* order_domain_values(var, assignment)
ApiOrder ==
    /\ pc = "idle"
    /\ \E asg \in KeyAssignments(crossword) : \E var \in crossword.variables :
         /\ assignment' = asg
         /\ \E values \in OrderDomainValues(crossword, domains, var, asg) :
               lastOp' = [name |-> "order_domain_values", var |-> var, ret |-> values,
                          prev |-> lastOp.name]
    /\ pc' = "returned"
    /\ UNCHANGED <<crossword, domains, arcs, seed, ac3ret, stack, result, before, calls, steps>>

\* one or two revisions, as the first calls, make the domains of the slots differ
SomeRevise == lastOp.prev = "none" /\ lastOp.name \in {"none", "revise"} /\ ApiRevise

HeuristicNext ==
    \/ ApiEnforceNodeConsistency
    \/ SomeRevise
    \/ ApiSelect
    \/ ApiOrder

SpecHeuristic == HeuristicInit /\ [][HeuristicNext]_vars

-----------------------------------------------------------------------------

(* consistent(assignment) applied to caller-supplied assignments *)

ConsistentInit ==
    /\ crossword \in Crosswords
    /\ domains = InitDomains(crossword)
    /\ pc = "idle"
    /\ arcs = <<>>
    /\ seed = NoSeed
    /\ ac3ret = "pending"
    /\ assignment = EmptyAssignment
    /\ stack = <<>>
    /\ result = "pending"
    /\ before = domains
    /\ lastOp = NoOp
    /\ calls = 0
    /\ steps = 0

\* the dict is iterated in the order the caller inserted its entries
ApiConsistent ==
    /\ pc = "idle"
    /\ \E asg \in Assignments(crossword) : \E order \in Perms(DOMAIN asg) :
         \E r \in Consistent(crossword, asg, order) :
            /\ assignment' = asg
            /\ lastOp' = Op("consistent", r, lastOp)
            /\ pc' = IF r = "IndexError" THEN "error" ELSE "returned"
    /\ UNCHANGED <<crossword, domains, arcs, seed, ac3ret, stack, result, before, calls, steps>>

SpecConsistent == ConsistentInit /\ [][ApiConsistent]_vars

-----------------------------------------------------------------------------
(* What the puzzle asks for, stated without the solver *)

\* asg gives every slot it assigns a word of the slot's length
LengthsMatch(asg) == \A v \in DOMAIN asg : Len(asg[v]) = v.length

\* no two assigned slots hold the same word
AllDistinct(asg) == \A u, v \in DOMAIN asg : u /= v => asg[u] /= asg[v]

\* every two assigned overlapping slots agree on the shared character
OverlapsAgree(asg) ==
    \A u, v \in DOMAIN asg :
        (u /= v /\ Overlaps(u, v) /= None) =>
            /\ Len(asg[u]) > Overlaps(u, v)[1]
            /\ Len(asg[v]) > Overlaps(u, v)[2]
            /\ asg[u][Overlaps(u, v)[1] + 1] = asg[v][Overlaps(u, v)[2] + 1]

\* the complete assignments of vocabulary words that satisfy every constraint
Solutions(cw) ==
    {asg \in [cw.variables -> cw.words] :
        LengthsMatch(asg) /\ AllDistinct(asg) /\ OverlapsAgree(asg)}

\* the puzzles that have a solution
SolvableCrosswords == {cw \in Crosswords : Solutions(cw) /= {}}

NodeConsistent(doms) ==
    \A v \in DOMAIN doms : \A w \in doms[v] : Len(w) = v.length

\* every word of x's domain has a compatible word in y's domain, for every
\* ordered pair of overlapping slots
ArcConsistent(cw, doms) ==
    \A x, y \in cw.variables :
        (x /= y /\ Overlaps(x, y) /= None) =>
            \A w \in doms[x] : \E v \in doms[y] :
                /\ Len(w) > Overlaps(x, y)[1]
                /\ Len(v) > Overlaps(x, y)[2]
                /\ w[Overlaps(x, y)[1] + 1] = v[Overlaps(x, y)[2] + 1]

-----------------------------------------------------------------------------
(* Claims *)

\* C1: whenever solve returns an assignment, it has an entry for every slot,
\* the consistency checker returns True on it in whatever order its entries
\* are taken, every word has its slot's length, the words are pairwise
\* distinct and overlapping slots agree on the shared character.
C1_Soundness ==
    result = "assignment" =>
        /\ DOMAIN assignment = crossword.variables
        /\ \A order \in Perms(DOMAIN assignment) :
              Consistent(crossword, assignment, order) = {"True"}
        /\ LengthsMatch(assignment)
        /\ AllDistinct(assignment)
        /\ OverlapsAgree(assignment)

\* solve has returned a solution of the square grid (four slots, four overlaps)
C1_Witness == result = "assignment" /\ crossword.variables = Square

\* the nodes of a search tree of the given depth in which every node has at
\* most w children
RECURSIVE TreeNodes(_, _)
TreeNodes(w, depth) == IF depth = 0 THEN 1 ELSE 1 + w * TreeNodes(w, depth - 1)

\* a number of steps no run of solve exceeds: the two calls, one worklist turn
\* for every initial arc and for every arc put back after one of the at most
\* n * w removals, the return of ac3, and for every node of the search tree
\* its entry, its loop exit and three steps for each of its w values
StepBound(cw) ==
    LET n == Cardinality(cw.variables)
        w == Cardinality(cw.words)
        a == Cardinality(ArcSet(cw))
    IN 2 + (a + n * w * a + 1) + TreeNodes(w, n) * (2 + 3 * w)

\* solve has not returned yet and its next step can be taken
Running == pc /= "done" /\ ENABLED Next

\* C2: if some complete assignment of vocabulary words satisfies the length,
\* uniqueness and overlap constraints, solve returns an assignment: it never
\* returns None and never raises, it can always take its next step until it
\* returns, and it returns within StepBound steps.
C2_Completeness ==
    crossword \in SolvableCrosswords =>
        /\ pc /= "error"
        /\ result /= "None"
        /\ steps <= StepBound(crossword)
        /\ (pc = "done" /\ result = "assignment") \/ Running

\* solve has returned an assignment for the three-slot grid, which has a solution
C2_Witness ==
    /\ result = "assignment"
    /\ crossword.variables = {S1, S2, S3}
    /\ crossword \in SolvableCrosswords

\* C3: if no complete consistent assignment exists, solve terminates and
\* returns None: it never raises and never returns an assignment, it can
\* always take its next step until it returns, and it returns within
\* StepBound steps.
C3_Unsatisfiable ==
    crossword \notin SolvableCrosswords =>
        /\ pc /= "error"
        /\ result /= "assignment"
        /\ steps <= StepBound(crossword)
        /\ (pc = "done" /\ result = "None") \/ Running

\* solve has returned None after a propagation that succeeded: the search ran
\* out of candidates
C3_Witness ==
    /\ result = "None"
    /\ ac3ret = "True"
    /\ \A v \in crossword.variables : domains[v] /= {}
    /\ crossword \notin SolvableCrosswords

\* C4: when ac3 is called without arcs on node-consistent domains and returns
\* True, every word left in a slot's domain has a compatible word left in the
\* domain of every slot it overlaps.
C4_ArcConsistentAfterAc3 ==
    (/\ pc = "idle"
     /\ lastOp.name = "ac3"
     /\ lastOp.ret = "True"
     /\ ~seed.given
     /\ NodeConsistent(before)) => ArcConsistent(crossword, domains)

\* such a call has returned True after removing words, leaving no domain empty
C4_Witness ==
    /\ pc = "idle"
    /\ lastOp.name = "ac3"
    /\ lastOp.ret = "True"
    /\ ~seed.given
    /\ NodeConsistent(before)
    /\ crossword.variables = {S1, S2, S3}
    /\ \E v \in crossword.variables : domains[v] /= before[v]
    /\ \A v \in crossword.variables : domains[v] /= {}

\* C5 as stated: once propagation inside solve has failed, no slot is
\* selected, no tentative assignment is made and the search is not entered.
C5_FailFast ==
    ac3ret = "False" =>
        /\ stack = <<>>
        /\ assignment = EmptyAssignment
        /\ pc \in {"backtrack", "done"}

\* C5 amended: once propagation inside solve has failed, solve still enters
\* the search, which selects a slot whose domain is empty, so that no
\* tentative assignment is made and solve returns None.
C5_FailedPropagationEndsInNone ==
    ac3ret = "False" =>
        /\ assignment = EmptyAssignment
        /\ result /= "assignment"
        /\ pc \in {"backtrack", "for", "done"}
        /\ stack /= <<>> =>
              /\ Len(stack) = 1
              /\ domains[stack[1].var] = {}
              /\ stack[1].values = <<>>
        /\ pc = "done" => result = "None"

\* solve has returned None after a failed propagation
C5_Witness == ac3ret = "False" /\ pc = "done" /\ result = "None"

\* C6: no step of a solve run adds a word to a domain, and every domain is
\* always a subset of the vocabulary.
C6_DomainsOnlyShrink ==
    /\ [][\A v \in crossword.variables : domains'[v] \subseteq domains[v]]_vars
    /\ [](\A v \in crossword.variables : domains[v] \subseteq crossword.words)

\* a domain has lost words both to node consistency and to propagation
C6_Witness ==
    /\ ac3ret = "True"
    /\ \E v \in crossword.variables :
          /\ before[v] /= crossword.words
          /\ domains[v] /= before[v]
          /\ domains[v] /= {}

\* C7: when ac3 is called with a list of arcs, the empty list included, the
\* worklist starts as exactly that list.
C7_WorklistIsSeed ==
    [][(pc = "idle" /\ pc' = "ac3" /\ seed'.given) => arcs' = seed'.arcs]_vars

\* C8: for an assignment whose words all have their slots' lengths,
\* consistent returns True exactly when the assigned words are pairwise
\* distinct and every two assigned overlapping slots agree on the shared
\* character; it raises nothing, and unassigned slots play no part.
C8_ConsistentResult ==
    (lastOp.name = "consistent" /\ LengthsMatch(assignment)) =>
        /\ lastOp.ret \in {"True", "False"}
        /\ lastOp.ret = "True" <=> (AllDistinct(assignment) /\ OverlapsAgree(assignment))

\* consistent has returned True on a partial assignment of two overlapping
\* slots of the three-slot grid, the third slot unassigned
C8_Witness ==
    /\ lastOp.name = "consistent"
    /\ lastOp.ret = "True"
    /\ crossword.variables = {S1, S2, S3}
    /\ DOMAIN assignment = {S1, S2}
    /\ LengthsMatch(assignment)

\* C9: enforce_node_consistency leaves in each domain exactly the words of
\* the previous domain that have the slot's length, and a second call right
\* after the first changes no domain.
C9_NodeFilterExactIdempotent ==
    lastOp.name = "enforce_node_consistency" =>
        /\ \A v \in crossword.variables :
              domains[v] = {w \in before[v] : Len(w) = v.length}
        /\ lastOp.prev = "enforce_node_consistency" => domains = before

\* enforce_node_consistency has been called twice in a row on a puzzle where
\* it removed words
C9_Witness ==
    /\ lastOp.name = "enforce_node_consistency"
    /\ lastOp.prev = "enforce_node_consistency"
    /\ calls = 2
    /\ \E v \in crossword.variables : domains[v] /= crossword.words /\ domains[v] /= {}

\* C10: from the end of enforce_node_consistency on, every word of every
\* domain has its slot's length; hence no index raises, the overlap indices
\* of the arc about to be revised are within every word of both domains, and
\* those of the consistency check are within the assigned words.
C10_LengthInvariant ==
    pc /= "solve" =>
        /\ pc /= "error"
        /\ \A v \in crossword.variables : \A w \in domains[v] : Len(w) = v.length
        /\ (pc = "ac3" /\ arcs /= <<>>) =>
              LET x == arcs[Len(arcs)][1]
                  y == arcs[Len(arcs)][2]
              IN Overlaps(x, y) /= None =>
                   /\ \A w \in domains[x] : Overlaps(x, y)[1] < Len(w)
                   /\ \A w \in domains[y] : Overlaps(x, y)[2] < Len(w)
        /\ pc = "check" =>
              \A u, v \in DOMAIN assignment :
                  (u /= v /\ Overlaps(u, v) /= None) =>
                      /\ Overlaps(u, v)[1] < Len(assignment[u])
                      /\ Overlaps(u, v)[2] < Len(assignment[v])

\* a consistency check is about to run on two assigned slots, in a puzzle
\* where node consistency removed words
C10_Witness ==
    /\ pc = "check"
    /\ Cardinality(DOMAIN assignment) >= 2
    /\ \E v \in crossword.variables : domains[v] /= {} /\ ~(crossword.words \subseteq domains[v])
    /\ \E u, v \in DOMAIN assignment : u /= v /\ Overlaps(u, v) /= None

\* the words of x's domain that no word of y's domain matches at overlap (i, j)
Unsupported(doms, x, y) ==
    {w \in doms[x] :
        ~ \E v \in doms[y] :
              w[Overlaps(x, y)[1] + 1] = v[Overlaps(x, y)[2] + 1]}

\* C11: after revise(x, y) on node-consistent domains, x's domain is its
\* previous domain minus the words that no word of y's domain matches at the
\* overlap, the call returns True exactly when a word was removed, and the
\* domain of y and of every other slot is as before; when x and y do not
\* overlap no domain changes and the call returns False.
C11_ReviseResult ==
    (lastOp.name = "revise" /\ NodeConsistent(before)) =>
        LET x == lastOp.x
            y == lastOp.y
        IN /\ pc = "idle"
           /\ lastOp.ret \in {"True", "False"}
           /\ \A v \in crossword.variables \ {x} : domains[v] = before[v]
           /\ (lastOp.ret = "True") <=> (domains[x] /= before[x])
           /\ IF Overlaps(x, y) = None
              THEN domains[x] = before[x] /\ lastOp.ret = "False"
              ELSE domains[x] = before[x] \ Unsupported(before, x, y)

\* revise(S2, S1) has removed a word from S2's domain and kept another
C11_Witness ==
    /\ lastOp.name = "revise"
    /\ NodeConsistent(before)
    /\ lastOp.x = S2 /\ lastOp.y = S1
    /\ lastOp.ret = "True"
    /\ domains[S2] /= {}
    /\ domains[S2] /= before[S2]
    /\ before[S1] /= {}

\* C12: (as claimed) whenever ac3 has returned True, whatever the domains
\* were at the call, no slot's domain is empty.
C12_SuccessExcludesEmpty ==
    (pc = "idle" /\ lastOp.name = "ac3" /\ lastOp.ret = "True") =>
        \A v \in crossword.variables : domains[v] /= {}

\* C12: (amended) ac3 returns True only with an empty worklist and with no
\* domain emptied by the call: every slot whose domain held a word when ac3
\* was called still holds one at return.
C12_SuccessEmptiesNoDomain ==
    (pc = "idle" /\ lastOp.name = "ac3" /\ lastOp.ret = "True") =>
        /\ arcs = <<>>
        /\ \A v \in crossword.variables : before[v] /= {} => domains[v] /= {}

\* ac3 has returned True after removing words; a domain that was empty at
\* the call is still empty
C12_Witness ==
    /\ pc = "idle"
    /\ lastOp.name = "ac3"
    /\ lastOp.ret = "True"
    /\ \E v \in crossword.variables : domains[v] /= before[v]
    /\ \E v \in crossword.variables : before[v] = {}

\* one round of removing, in every domain at once, the words that some
\* overlapping slot's domain does not support
PruneAll(cw, doms) ==
    [x \in DOMAIN doms |->
        {w \in doms[x] :
            \A y \in Neighbors(cw, x) :
                \E v \in doms[y] : w[Overlaps(x, y)[1] + 1] = v[Overlaps(x, y)[2] + 1]}]

\* the largest arc-consistent domains inside doms; it depends on doms only
RECURSIVE ArcClosure(_, _)
ArcClosure(cw, doms) ==
    IF PruneAll(cw, doms) = doms THEN doms ELSE ArcClosure(cw, PruneAll(cw, doms))

RECURSIVE TotalWords(_, _)
\* the number of words in the domains of the slots in S
TotalWords(doms, S) ==
    IF S = {} THEN 0
    ELSE LET v == CHOOSE u \in S : TRUE
         IN Cardinality(doms[v]) + TotalWords(doms, S \ {v})

\* the length of the worklist ac3 starts with
InitialLength(cw, arg) ==
    IF ~arg.given \/ arg.arcs = <<>> THEN Cardinality(ArcSet(cw)) ELSE Len(arg.arcs)

\* the most arcs one revision can put back: the neighbors of x other than y
MaxRequeue(cw) ==
    LET n == {Cardinality(Neighbors(cw, x)) - 1 : x \in cw.variables} \cup {0}
    IN CHOOSE m \in n : \A k \in n : k <= m

\* C14: the worklist loop of ac3 ends, for every vocabulary, puzzle and
\* arcs argument. While the loop runs a next turn is always possible; the
\* turns taken plus the arcs still waiting never exceed the initial worklist
\* plus what the removed words account for (arcs are put back only by a turn
\* that removed a word); so the turns are bounded by the initial worklist
\* and the number of words in all domains at the call.
C14_Ac3Terminates ==
    lastOp.name = "ac3" =>
        LET initial == InitialLength(crossword, seed)
            removed == TotalWords(before, crossword.variables)
                         - TotalWords(domains, crossword.variables)
            k == MaxRequeue(crossword)
        IN /\ pc = "ac3" => ENABLED CountedAc3Step
           /\ pc = "ac3" => steps + Len(arcs) <= initial + removed * k
           /\ steps <= initial + TotalWords(before, crossword.variables) * k + 1

\* ac3 has returned after more turns than its initial worklist had arcs
C14_Witness ==
    /\ pc = "idle"
    /\ lastOp.name = "ac3"
    /\ lastOp.ret = "True"
    /\ steps > InitialLength(crossword, seed) + 1

\* C15: for an incomplete assignment select_unassigned_variable returns a
\* slot that is not in the assignment, whose domain is no larger than that of
\* any unassigned slot, and that has no fewer neighbors than any unassigned
\* slot with a domain of that smallest size.
C15_SelectMrvDegree ==
    lastOp.name = "select_unassigned_variable" =>
        LET var == lastOp.ret
            unassigned == crossword.variables \ DOMAIN assignment
        IN /\ var \in unassigned
           /\ \A u \in unassigned :
                 /\ Cardinality(domains[var]) <= Cardinality(domains[u])
                 /\ Cardinality(domains[u]) = Cardinality(domains[var]) =>
                       Cardinality(Neighbors(crossword, var))
                          >= Cardinality(Neighbors(crossword, u))

\* the slot returned won a tie on domain size by its number of neighbors,
\* and a slot with a larger domain was passed over
C15_Witness ==
    /\ lastOp.name = "select_unassigned_variable"
    /\ lastOp.ret = S2
    /\ assignment = EmptyAssignment
    /\ crossword.variables = {S1, S2, S3}
    /\ Cardinality(domains[S1]) = Cardinality(domains[S2])
    /\ Cardinality(domains[S3]) > Cardinality(domains[S2])

\* the number of var's neighbors outside the assignment whose domain holds word
UnassignedHolders(var, word) ==
    Cardinality({n \in crossword.variables :
                    /\ n /= var
                    /\ Overlaps(var, n) /= None
                    /\ n \notin DOMAIN assignment
                    /\ word \in domains[n]})

\* C16: order_domain_values returns every word of the slot's domain exactly
\* once, in non-decreasing order of the number of the slot's unassigned
\* neighbors whose domain contains the word; neighbors in the assignment are
\* not counted.
C16_OrderLcv ==
    lastOp.name = "order_domain_values" =>
        LET var == lastOp.var
            values == lastOp.ret
        IN /\ Len(values) = Cardinality(domains[var])
           /\ {values[k] : k \in DOMAIN values} = domains[var]
           /\ \A a, b \in DOMAIN values :
                 a < b => UnassignedHolders(var, values[a]) <= UnassignedHolders(var, values[b])

\* the order was decided by the count: two words of the domain have different
\* counts, and a neighbor that holds the first word is assigned and not counted
C16_Witness ==
    /\ lastOp.name = "order_domain_values"
    /\ Len(lastOp.ret) >= 2
    /\ UnassignedHolders(lastOp.var, lastOp.ret[1])
          < UnassignedHolders(lastOp.var, lastOp.ret[Len(lastOp.ret)])
    /\ \E n \in DOMAIN assignment :
          /\ n /= lastOp.var
          /\ Overlaps(lastOp.var, n) /= None
          /\ lastOp.ret[1] \in domains[n]

\* asg2 is asg1 with one more entry
OneMore(asg1, asg2) ==
    \E v \in DOMAIN asg2 \ DOMAIN asg1 :
        /\ DOMAIN asg2 = DOMAIN asg1 \cup {v}
        /\ \A u \in DOMAIN asg1 : asg2[u] = asg1[u]

\* C17: at the head of the loop of every call of backtrack, and so when the
\* loop is over and the call returns None, the assignment is what it was when
\* the call was entered; a step that assigns adds exactly one entry, a step
\* that undoes removes exactly one, no other step changes the assignment, and
\* the assignment never has more entries than there are slots.
C17_UndoOnBacktrack ==
    /\ [](pc = "for" => assignment = stack[Len(stack)].entry)
    /\ [](Cardinality(DOMAIN assignment) <= Cardinality(crossword.variables))
    /\ [][IF pc = "for" /\ pc' = "check" THEN OneMore(assignment, assignment')
          ELSE IF pc = "undo" THEN OneMore(assignment', assignment)
          ELSE assignment' = assignment]_vars

\* a nested call has tried every word of its slot and returns None
C17_Witness ==
    /\ pc = "for"
    /\ Len(stack) >= 2
    /\ stack[Len(stack)].values = <<>>
    /\ domains[stack[Len(stack)].var] /= {}
    /\ assignment = stack[Len(stack)].entry
    /\ assignment /= EmptyAssignment

\* C18: from the first entry of backtrack until solve returns no step changes
\* a slot's domain; only the node filter and the arc propagator change one.
C18_SearchKeepsDomains ==
    [][/\ pc \in {"backtrack", "for", "check", "undo"} => domains' = domains
       /\ domains' /= domains => pc \in {"solve", "ac3"}]_vars

\* the search has assigned, failed and undone inside a nested call, after
\* the propagator had removed words
C18_Witness ==
    /\ pc = "undo"
    /\ Len(stack) >= 2
    /\ ac3ret = "True"
    /\ \E v \in crossword.variables : domains[v] /= EnforceNodeConsistency(InitDomains(crossword))[v]

\* C19: whenever some assigned word's length differs from its slot's length,
\* consistent returns False, in whatever order the entries are examined, and
\* raises no error.
C19_LengthViolationIsFalse ==
    (lastOp.name = "consistent" /\ ~LengthsMatch(assignment)) => lastOp.ret = "False"

\* the solutions of each puzzle the public calls are exercised on
ApiSolutions == [cw \in ApiCrosswords |-> Solutions(cw)]

\* the solutions of the puzzle whose words all are in the domains
SolutionsWithin(doms) ==
    {asg \in ApiSolutions[crossword] : \A v \in crossword.variables : asg[v] \in doms[v]}

\* C20: starting from node-consistent domains, revise and ac3 remove from no
\* slot's domain a word the slot takes in a solution drawn from the domains
\* at the call; when ac3 returns False the puzzle has no solution, and when
\* it returns True every solution of the puzzle is still within the domains.
C20_PropagationSound ==
    (lastOp.name \in {"revise", "ac3"} /\ NodeConsistent(before)) =>
        /\ SolutionsWithin(before) \subseteq SolutionsWithin(domains)
        /\ (lastOp.name = "ac3" /\ lastOp.ret = "False") => ApiSolutions[crossword] = {}
        /\ (lastOp.name = "ac3" /\ lastOp.ret = "True") =>
              ApiSolutions[crossword] = SolutionsWithin(domains)

\* ac3 has returned True after removing words from the three-slot puzzle, and
\* the puzzle has a solution
C20_Witness ==
    /\ pc = "idle"
    /\ lastOp.name = "ac3"
    /\ lastOp.ret = "True"
    /\ NodeConsistent(before)
    /\ crossword.variables = {S1, S2, S3}
    /\ domains /= before
    /\ SolutionsWithin(domains) /= {}

====
